---------------------------- MODULE Spec2Model ----------------------------
(***************************************************************************)
(* A model of the gmail-sub-agent pipeline: GmailScanner's text            *)
(* extractors and service-name inference, SubscriptionAnalyzer's record    *)
(* builder and summary report, and the GmailSubAgent operations that       *)
(* drive them.                                                             *)
(*                                                                         *)
(* Python str values are TLA+ strings; a character is a string of length   *)
(* one.  None is the empty tuple <<>>, and a present optional value v is   *)
(* <<v>>.  A float amount is an exact fraction <<numerator, denominator>>  *)
(* in lowest terms.  A datetime is a number of seconds since the epoch.     *)
(***************************************************************************)
EXTENDS Integers, Sequences, FiniteSets, TLC

VARIABLES
    inbox,          \* the messages the mail source returns to a scan
    now,            \* the wall clock, datetime.now()
    subscriptions,  \* GmailSubAgent.subscriptions
    summary,        \* GmailSubAgent.summary
    op,             \* the operation that completed last
    opAt,           \* the value of now when it ran
    args,           \* the argument it was given
    ret             \* the value it returned

vars == <<inbox, now, subscriptions, summary, op, opAt, args, ret>>

None == <<>>
Some(v) == <<v>>

\* body(v) where v is the value of e, worked out once: a local variable
Bind(e, body(_)) == CHOOSE r \in {body(v) : v \in {e}} : TRUE

-----------------------------------------------------------------------------
(* Python str methods *)

UpperLetters == "ABCDEFGHIJKLMNOPQRSTUVWXYZ"
LowerLetters == "abcdefghijklmnopqrstuvwxyz"
DigitChars == "0123456789"

Char(s, i) == SubSeq(s, i, i)

Rest(s) == SubSeq(s, 2, Len(s))

\* 0 when c is not in the alphabet
IndexIn(alphabet, c) ==
    IF \E i \in 1..Len(alphabet) : Char(alphabet, i) = c
    THEN CHOOSE i \in 1..Len(alphabet) : Char(alphabet, i) = c
    ELSE 0

\* the characters of an alphabet
CharsOf(alphabet) == {Char(alphabet, i) : i \in 1..Len(alphabet)}

UpperSet == CharsOf(UpperLetters)
LowerSet == CharsOf(LowerLetters)
DigitSet == CharsOf(DigitChars)

ToLower == [c \in UpperSet |-> Char(LowerLetters, IndexIn(UpperLetters, c))]
ToUpper == [c \in LowerSet |-> Char(UpperLetters, IndexIn(LowerLetters, c))]
DigitOf == [c \in DigitSet |-> IndexIn(DigitChars, c) - 1]

IsUpper(c) == c \in UpperSet
IsLower(c) == c \in LowerSet
IsLetter(c) == IsUpper(c) \/ IsLower(c)
IsDigit(c) == c \in DigitSet
IsSpace(c) == c \in {" ", "\t", "\n", "\r"}

LowerChar(c) == IF IsUpper(c) THEN ToLower[c] ELSE c

UpperChar(c) == IF IsLower(c) THEN ToUpper[c] ELSE c

RECURSIVE str_lower(_)
str_lower(s) ==
    IF Len(s) = 0 THEN "" ELSE LowerChar(Char(s, 1)) \o str_lower(Rest(s))

\* str.title(): a letter that follows a letter is lowered, any other letter
\* is raised
RECURSIVE TitleFrom(_, _)
TitleFrom(s, prevCased) ==
    IF Len(s) = 0 THEN ""
    ELSE LET c == Char(s, 1)
         IN  (IF prevCased THEN LowerChar(c) ELSE UpperChar(c))
                 \o TitleFrom(Rest(s), IsLetter(c))

str_title(s) == TitleFrom(s, FALSE)

\* the index of the first occurrence of pat in s at or after start, else 0
Find(s, pat, start) ==
    LET hits == {i \in start..(Len(s) - Len(pat) + 1) :
                    SubSeq(s, i, i + Len(pat) - 1) = pat}
    IN  IF hits = {} THEN 0 ELSE CHOOSE i \in hits : \A j \in hits : i <= j

\* pat in s
Contains(s, pat) == Find(s, pat, 1) > 0

\* s.split(sep), sep not empty
RECURSIVE str_split(_, _)
str_split(s, sep) ==
    LET i == Find(s, sep, 1)
    IN  IF i = 0 THEN <<s>>
        ELSE <<SubSeq(s, 1, i - 1)>>
                 \o str_split(SubSeq(s, i + Len(sep), Len(s)), sep)

\* s.replace(c, ''), c one character
RECURSIVE str_remove(_, _)
str_remove(s, c) ==
    IF Len(s) = 0 THEN ""
    ELSE (IF Char(s, 1) = c THEN "" ELSE Char(s, 1)) \o str_remove(Rest(s), c)

First(seq) == seq[1]
Last(seq) == seq[Len(seq)]

\* re.search(p1|p2|..., text, re.IGNORECASE) for literal alternatives
SearchAny(literals, text) ==
    \E lowered \in {str_lower(text)} :
        \E k \in 1..Len(literals) : Contains(lowered, literals[k])

-----------------------------------------------------------------------------
(* Amounts: float values as exact fractions *)

RECURSIVE Gcd(_, _)
Gcd(a, b) == IF b = 0 THEN a ELSE Gcd(b, a % b)

\* the fraction n/d in lowest terms, d > 0
Frac(n, d) == LET g == Gcd(IF n < 0 THEN -n ELSE n, d)
              IN  IF g = 0 THEN <<0, 1>> ELSE <<n \div g, d \div g>>

RECURSIVE Pow10(_)
Pow10(k) == IF k = 0 THEN 1 ELSE 10 * Pow10(k - 1)

\* int(s) for a string of decimal digits
RECURSIVE DigitsValue(_)
DigitsValue(s) ==
    IF Len(s) = 0 THEN 0
    ELSE 10 * DigitsValue(SubSeq(s, 1, Len(s) - 1))
             + DigitOf[Char(s, Len(s))]

\* float(s) for s matching \d+(?:\.\d+)?
ParseFloat(s) ==
    LET parts == str_split(s, ".")
    IN  IF Len(parts) = 1 THEN Frac(DigitsValue(parts[1]), 1)
        ELSE Frac(DigitsValue(parts[1] \o parts[2]), Pow10(Len(parts[2])))

\* s.replace(',', '.')
RECURSIVE CommaToDot(_)
CommaToDot(s) ==
    IF Len(s) = 0 THEN ""
    ELSE (IF Char(s, 1) = "," THEN "." ELSE Char(s, 1)) \o CommaToDot(Rest(s))

-----------------------------------------------------------------------------
(* GmailScanner *)

service_providers ==
    << "netflix.com", "spotify.com", "adobe.com", "dropbox.com",
       "amazon.com", "apple.com", "microsoft.com", "google.com",
       "hulu.com", "disney.com", "hbo.com", "github.com",
       "notion.so", "canva.com", "grammarly.com", "zoom.us" >>

CurrencySymbols == {"$", "£", "€"}

CurrencyWords == <<"usd", "gbp", "eur", "dollars", "pounds", "euros">>

\* the index after the longest run of digits that starts at i
RECURSIVE DigitsEnd(_, _)
DigitsEnd(s, i) ==
    IF i <= Len(s) /\ IsDigit(Char(s, i)) THEN DigitsEnd(s, i + 1) ELSE i

\* the index after the longest run of whitespace that starts at i
RECURSIVE SpacesEnd(_, _)
SpacesEnd(s, i) ==
    IF i <= Len(s) /\ IsSpace(Char(s, i)) THEN SpacesEnd(s, i + 1) ELSE i

\* \d+(?:[.,]\d+)? at i: the index after the match, 0 when there is none
NumberEnd(s, i) ==
    LET e == DigitsEnd(s, i)
    IN  IF e = i THEN 0
        ELSE IF /\ e <= Len(s)
                /\ Char(s, e) \in {".", ","}
                /\ DigitsEnd(s, e + 1) > e + 1
             THEN DigitsEnd(s, e + 1)
             ELSE e

\* (?:USD|GBP|EUR|dollars|pounds|euros) at i, ignoring case: the index after
\* the first alternative that matches, or 0
WordEnd(s, i) ==
    LET hits == {k \in 1..Len(CurrencyWords) :
                    /\ i + Len(CurrencyWords[k]) - 1 <= Len(s)
                    /\ str_lower(SubSeq(s, i, i + Len(CurrencyWords[k]) - 1))
                           = CurrencyWords[k]}
    IN  IF hits = {} THEN 0
        ELSE i + Len(CurrencyWords[CHOOSE k \in hits : \A j \in hits : k <= j])

\* One attempt of pattern p (1, 2 or 3 of the patterns list) at index i:
\* None, or <<first, last, gfirst, glast>>, the bounds of group 0 and group 1.
\* A number is followed by a digit, '.' or ',' wherever it is cut short, so
\* the longest number is the only one that the rest of patterns 2 and 3 can
\* follow.
MatchAt(p, s, i) ==
    IF p = 1
    THEN IF Char(s, i) \in CurrencySymbols
         THEN LET g == SpacesEnd(s, i + 1)
                  e == NumberEnd(s, g)
              IN  IF e = 0 THEN None ELSE Some(<<i, e - 1, g, e - 1>>)
         ELSE None
    ELSE LET e == NumberEnd(s, i)
             t == SpacesEnd(s, e)
         IN  IF e = 0 THEN None
             ELSE IF p = 2
                  THEN IF t <= Len(s) /\ Char(s, t) \in CurrencySymbols
                       THEN Some(<<i, t, i, e - 1>>)
                       ELSE None
                  ELSE IF WordEnd(s, t) > 0
                       THEN Some(<<i, WordEnd(s, t) - 1, i, e - 1>>)
                       ELSE None

\* lines 257-265: the currency of one match, from its group 0
MatchCurrency(g0) ==
    IF Contains(g0, "$") \/ Contains(g0, "USD")
          \/ Contains(str_lower(g0), "dollars")
    THEN "USD"
    ELSE IF Contains(g0, "£") \/ Contains(g0, "GBP")
               \/ Contains(str_lower(g0), "pounds")
         THEN "GBP"
         ELSE IF Contains(g0, "€") \/ Contains(g0, "EUR")
                    \/ Contains(str_lower(g0), "euros")
              THEN "EUR"
              ELSE "USD"

\* re.finditer(pattern p, text, re.IGNORECASE) from index i on, each match
\* turned into its (amount, currency) pair
RECURSIVE FindIter(_, _, _)
FindIter(p, s, i) ==
    IF i > Len(s) THEN <<>>
    ELSE LET m == MatchAt(p, s, i)
         IN  IF m = None THEN FindIter(p, s, i + 1)
             ELSE LET b == m[1]
                      amount == ParseFloat(CommaToDot(SubSeq(s, b[3], b[4])))
                  IN  <<<<amount, MatchCurrency(SubSeq(s, b[1], b[2]))>>>>
                          \o FindIter(p, s, b[2] + 1)

extract_currency_amounts(text) ==
    FindIter(1, text, 1) \o FindIter(2, text, 1) \o FindIter(3, text, 1)

monthly_patterns ==
    <<"monthly", "per month", "each month", "every month", "/month",
      "month-to-month">>

annual_patterns ==
    <<"annual", "yearly", "per year", "each year", "every year", "/year",
      "12-month">>

quarterly_patterns ==
    <<"quarterly", "per quarter", "every quarter", "3-month", "three-month">>

weekly_patterns ==
    <<"weekly", "per week", "each week", "every week", "/week">>

\* the groups tried with Annual before Monthly
extract_billing_frequency_AnnualFirst(text) ==
    IF SearchAny(annual_patterns, text) THEN Some("Annual")
    ELSE IF SearchAny(monthly_patterns, text) THEN Some("Monthly")
    ELSE IF SearchAny(quarterly_patterns, text) THEN Some("Quarterly")
    ELSE IF SearchAny(weekly_patterns, text) THEN Some("Weekly")
    ELSE None

\* The optional (?:\s+subscription)? tail of a pattern never decides whether
\* re.search finds it, so each pattern is searched as its literal head.
extract_billing_frequency(text) ==
    IF SearchAny(monthly_patterns, text) THEN Some("Monthly")
    ELSE IF SearchAny(annual_patterns, text) THEN Some("Annual")
    ELSE IF SearchAny(quarterly_patterns, text) THEN Some("Quarterly")
    ELSE IF SearchAny(weekly_patterns, text) THEN Some("Weekly")
    ELSE None

GenericDomains == {"gmail", "yahoo", "hotmail", "outlook", "mail"}

\* lines 357-360: the first provider whose name occurs in the subject
ProviderInSubject(subject) ==
    LET hits == {k \in 1..Len(service_providers) :
                    \E lowered \in {str_lower(subject)} :
                        Contains(lowered,
                                 First(str_split(service_providers[k], ".")))}
    IN  IF hits = {} THEN None
        ELSE Some(First(str_split(
                 service_providers[CHOOSE k \in hits : \A j \in hits : k <= j],
                 ".")))

extract_service_name(email_data) ==
    LET from_field == email_data.from
        domain == First(str_split(Last(str_split(from_field, "@")), ">"))
        company == First(str_split(domain, "."))
        provider == ProviderInSubject(email_data.subject)
    IN  IF Contains(from_field, "@") /\ company \notin GenericDomains
        THEN str_title(company)
        ELSE IF provider # None THEN str_title(provider[1])
        ELSE IF from_field # ""
        THEN str_title(str_remove(str_remove(
                 First(str_split(from_field, " ")), "\""), "<"))
        ELSE "Unknown Service"

-----------------------------------------------------------------------------
(* Python re, re.IGNORECASE, for the patterns of detect_free_trial and of     *)
(* datetime.strptime.  A pattern is a tuple:                                  *)
(*   <<"lit", w>>  the lower-case literal w      <<"cls", k>>  one character  *)
(*   <<"alt", rs>> r1|r2|...                     <<"seq", rs>> r1 r2 ...      *)
(*   <<"rep", r, lo, hi>>  r{lo,hi}, greedy; hi = -1 for no upper limit       *)
(* Ends(r, s, i) lists the indexes after each way r matches s at index i, in  *)
(* the order in which the backtracking matcher tries them.                    *)

InClass(k, c) ==
    CASE k = "alpha" -> IsLetter(c)
      [] k = "digit" -> IsDigit(c)
      [] k = "space" -> IsSpace(c)
      [] k = "digit19" -> IsDigit(c) /\ c # "0"
      [] k = "digit01" -> c \in {"0", "1"}
      [] k = "digit02" -> c \in {"0", "1", "2"}
      [] k = "digit12" -> c \in {"1", "2"}
      [] k = "slashdash" -> c \in {"/", "-"}

Lit(w) == <<"lit", w>>
Cls(k) == <<"cls", k>>
Alt(rs) == <<"alt", rs>>
Cat(rs) == <<"seq", rs>>
Rep(r, lo, hi) == <<"rep", r, lo, hi>>
Opt(r) == Rep(r, 0, 1)
Plus(r) == Rep(r, 1, -1)

RECURSIVE Ends(_, _, _), EndsAlt(_, _, _), EndsSeq(_, _, _),
          EndsRep(_, _, _, _, _), ThenSeq(_, _, _), ThenRep(_, _, _, _, _)

Ends(r, s, i) ==
    CASE r[1] = "lit" ->
             IF /\ i + Len(r[2]) - 1 <= Len(s)
                /\ str_lower(SubSeq(s, i, i + Len(r[2]) - 1)) = r[2]
             THEN <<i + Len(r[2])>> ELSE <<>>
      [] r[1] = "cls" ->
             IF i <= Len(s) /\ InClass(r[2], Char(s, i))
             THEN <<i + 1>> ELSE <<>>
      [] r[1] = "alt" -> EndsAlt(r[2], s, i)
      [] r[1] = "seq" -> EndsSeq(r[2], s, i)
      [] r[1] = "rep" -> EndsRep(r[2], r[3], r[4], s, i)

EndsAlt(rs, s, i) ==
    IF rs = <<>> THEN <<>> ELSE Ends(Head(rs), s, i) \o EndsAlt(Tail(rs), s, i)

EndsSeq(rs, s, i) ==
    IF rs = <<>> THEN <<i>> ELSE ThenSeq(Ends(Head(rs), s, i), Tail(rs), s)

ThenSeq(ends, rs, s) ==
    IF ends = <<>> THEN <<>>
    ELSE EndsSeq(rs, s, Head(ends)) \o ThenSeq(Tail(ends), rs, s)

\* every repeated pattern here consumes at least one character
EndsRep(r, lo, hi, s, i) ==
    (IF hi = 0 THEN <<>> ELSE ThenRep(Ends(r, s, i), r, lo, hi, s))
        \o (IF lo <= 0 THEN <<i>> ELSE <<>>)

ThenRep(ends, r, lo, hi, s) ==
    IF ends = <<>> THEN <<>>
    ELSE EndsRep(r, lo - 1, IF hi < 0 THEN hi ELSE hi - 1, s, Head(ends))
             \o ThenRep(Tail(ends), r, lo, hi, s)

\* The ways the parts rs match one after another from i: each way lists the
\* index after each part.
RECURSIVE Paths(_, _, _), ThenPaths(_, _, _), Prefixed(_, _)
Prefixed(e, paths) ==
    IF paths = <<>> THEN <<>>
    ELSE <<<<e>> \o Head(paths)>> \o Prefixed(e, Tail(paths))

Paths(rs, s, i) ==
    IF rs = <<>> THEN << <<>> >> ELSE ThenPaths(Ends(Head(rs), s, i), Tail(rs), s)

ThenPaths(ends, rs, s) ==
    IF ends = <<>> THEN <<>>
    ELSE Prefixed(Head(ends), Paths(rs, s, Head(ends)))
             \o ThenPaths(Tail(ends), rs, s)

\* re.search of <<prefix, group>>: None, or the text of the group in the
\* leftmost match
RECURSIVE SearchGroup(_, _, _)
SearchGroup(rs, s, i) ==
    IF i > Len(s) + 1 THEN None
    ELSE LET paths == Paths(rs, s, i)
         IN  IF paths = <<>> THEN SearchGroup(rs, s, i + 1)
             ELSE Some(SubSeq(s, Head(paths)[1], Head(paths)[2] - 1))

-----------------------------------------------------------------------------
(* datetime *)

MonthNames ==
    <<"january", "february", "march", "april", "may", "june", "july",
      "august", "september", "october", "november", "december">>

IsLeap(y) == (y % 4 = 0 /\ y % 100 # 0) \/ y % 400 = 0

DaysInMonth(y, m) ==
    IF m = 2 THEN (IF IsLeap(y) THEN 29 ELSE 28)
    ELSE IF m \in {4, 6, 9, 11} THEN 30 ELSE 31

\* days from 1970-01-01 to the date y-m-d of the proleptic Gregorian calendar
DaysFromCivil(y, m, d) ==
    LET yy == IF m <= 2 THEN y - 1 ELSE y
        era == yy \div 400
        yoe == yy - era * 400
        mp == (m + 9) % 12
        doy == (153 * mp + 2) \div 5 + d - 1
        doe == yoe * 365 + yoe \div 4 - yoe \div 100 + doy
    IN  era * 146097 + doe - 719468

\* the patterns _strptime compiles the directives into
DirectiveB == Alt([k \in 1..12 |-> Lit(MonthNames[k])])
DirectiveD ==
    Alt(<< Cat(<<Lit("3"), Cls("digit01")>>),
           Cat(<<Cls("digit12"), Cls("digit")>>),
           Cat(<<Lit("0"), Cls("digit19")>>),
           Cls("digit19"),
           Cat(<<Lit(" "), Cls("digit19")>>) >>)
DirectiveM ==
    Alt(<< Cat(<<Lit("1"), Cls("digit02")>>),
           Cat(<<Lit("0"), Cls("digit19")>>),
           Cls("digit19") >>)
DirectiveY == Cat(<<Cls("digit"), Cls("digit"), Cls("digit"), Cls("digit")>>)
Blank == Plus(Cls("space"))

\* Each format as <<parts, where>>: the parts of its pattern, and the
\* positions in parts of the month, the day and the year
DateFormats ==
    << <<<<DirectiveB, Blank, DirectiveD, Lit(","), Blank, DirectiveY>>,
         <<1, 3, 6>>>>,                                   \* %B %d, %Y
       <<<<DirectiveB, Blank, DirectiveD, Blank, DirectiveY>>,
         <<1, 3, 5>>>>,                                   \* %B %d %Y
       <<<<DirectiveM, Lit("/"), DirectiveD, Lit("/"), DirectiveY>>,
         <<1, 3, 5>>>>,                                   \* %m/%d/%Y
       <<<<DirectiveM, Lit("-"), DirectiveD, Lit("-"), DirectiveY>>,
         <<1, 3, 5>>>>,                                   \* %m-%d-%Y
       <<<<DirectiveD, Lit("/"), DirectiveM, Lit("/"), DirectiveY>>,
         <<3, 1, 5>>>>,                                   \* %d/%m/%Y
       <<<<DirectiveD, Lit("-"), DirectiveM, Lit("-"), DirectiveY>>,
         <<3, 1, 5>>>> >>                                 \* %d-%m-%Y

SecondsPerDay == 86400

\* datetime.fromtimestamp(timestamp): a datetime is counted in seconds from
\* 1970-01-01 00:00 on the clock that datetime.now() reads, which is taken to
\* run at UTC; fractions of a second are left out
fromtimestamp(timestamp) == timestamp

\* the text that part k of a path matched
Piece(s, path, k) ==
    SubSeq(s, IF k = 1 THEN 1 ELSE path[k - 1], path[k] - 1)

MonthNumber(w) ==
    IF \E k \in 1..12 : MonthNames[k] = str_lower(w)
    THEN CHOOSE k \in 1..12 : MonthNames[k] = str_lower(w)
    ELSE DigitsValue(w)

\* datetime.strptime(date_str, fmt): None for ValueError.  The pattern is
\* matched at the start of the string, the first match is the one taken, and
\* text left after it is an error.
strptime(date_str, fmt) ==
    LET paths == Paths(fmt[1], date_str, 1)
    IN  IF paths = <<>> THEN None
        ELSE LET path == Head(paths)
                 m == MonthNumber(Piece(date_str, path, fmt[2][1]))
                 d == DigitsValue(str_remove(
                          Piece(date_str, path, fmt[2][2]), " "))
                 y == DigitsValue(Piece(date_str, path, fmt[2][3]))
             IN  IF Last(path) # Len(date_str) + 1 THEN None
                 ELSE IF y < 1 \/ d > DaysInMonth(y, m) THEN None
                 ELSE Some(DaysFromCivil(y, m, d) * SecondsPerDay)

-----------------------------------------------------------------------------
(* SubscriptionAnalyzer *)

service_categories ==
    << <<"streaming",
         <<"netflix", "hulu", "disney", "spotify", "apple music", "youtube",
           "hbo", "prime video", "paramount", "peacock", "crunchyroll",
           "dazn", "fubo", "sling", "tidal">>>>,
       <<"productivity",
         <<"microsoft", "office", "google", "workspace", "dropbox", "box",
           "evernote", "notion", "airtable", "asana", "trello", "slack",
           "zoom", "adobe", "canva", "grammarly">>>>,
       <<"gaming",
         <<"xbox", "playstation", "nintendo", "steam", "epic games",
           "ea play", "ubisoft", "game pass", "ps plus", "nintendo online">>>>,
       <<"fitness",
         <<"peloton", "fitbit", "strava", "myfitnesspal", "beachbody",
           "classpass", "fitness", "gym", "workout">>>>,
       <<"news",
         <<"nyt", "new york times", "wsj", "wall street journal",
           "washington post", "economist", "financial times", "bloomberg",
           "medium", "substack">>>>,
       <<"shopping",
         <<"amazon", "walmart", "instacart", "doordash", "uber eats",
           "grubhub", "hello fresh", "blue apron", "prime", "costco">>>>,
       <<"security",
         <<"norton", "mcafee", "avast", "avg", "kaspersky", "bitdefender",
           "vpn", "password", "lastpass", "1password", "dashlane">>>>,
       <<"cloud",
         <<"aws", "amazon web", "azure", "google cloud", "digitalocean",
           "linode", "vultr", "heroku", "netlify", "vercel">>>> >>

\* lines 66-69 and 73-76: the first category, in order, with a keyword in text
FirstCategory(text) ==
    LET hits == {k \in 1..Len(service_categories) :
                    \E lowered \in {text} :
                        \E j \in 1..Len(service_categories[k][2]) :
                            Contains(lowered, service_categories[k][2][j])}
    IN  IF hits = {} THEN None
        ELSE Some(str_title(
                 service_categories[CHOOSE k \in hits : \A j \in hits : k <= j][1]))

\* the email content looked at before the service name
categorize_subscription_ContentFirst(service_name, email_content) ==
    LET byName == FirstCategory(str_lower(service_name))
        byContent == FirstCategory(str_lower(email_content))
    IN  IF byContent # None THEN byContent[1]
        ELSE IF byName # None THEN byName[1]
        ELSE "Other"

categorize_subscription(service_name, email_content) ==
    LET byName == FirstCategory(str_lower(service_name))
        byContent == FirstCategory(str_lower(email_content))
    IN  IF byName # None THEN byName[1]
        ELSE IF byContent # None THEN byContent[1]
        ELSE "Other"

\* the words looked for in the frequency as it is written, without lower()
calculate_monthly_cost_CaseSensitive(amount, frequency) ==
    IF frequency = None \/ frequency[1] = "" THEN amount
    ELSE LET f == frequency[1]
         IN  IF Contains(f, "annual") \/ Contains(f, "yearly")
             THEN Frac(amount[1], amount[2] * 12)
             ELSE IF Contains(f, "quarterly")
             THEN Frac(amount[1], amount[2] * 3)
             ELSE IF Contains(f, "weekly")
             THEN Frac(amount[1] * 433, amount[2] * 100)
             ELSE IF Contains(f, "daily")
             THEN Frac(amount[1] * 3042, amount[2] * 100)
             ELSE amount

\* amount is a fraction, frequency a string or None
calculate_monthly_cost(amount, frequency) ==
    IF frequency = None \/ frequency[1] = "" THEN amount
    ELSE LET f == str_lower(frequency[1])
         IN  IF Contains(f, "annual") \/ Contains(f, "yearly")
             THEN Frac(amount[1], amount[2] * 12)
             ELSE IF Contains(f, "quarterly")
             THEN Frac(amount[1], amount[2] * 3)
             ELSE IF Contains(f, "weekly")
             THEN Frac(amount[1] * 433, amount[2] * 100)
             ELSE IF Contains(f, "daily")
             THEN Frac(amount[1] * 3042, amount[2] * 100)
             ELSE amount

threshold_days == 60

\* timedelta.days: whole days, rounded down
TimedeltaDays(seconds) == seconds \div SecondsPerDay

\* the comparison with < for <=
is_subscription_active_Strict(t, last_email_date) ==
    TimedeltaDays(t - last_email_date) < threshold_days

\* (datetime.now() - last_email_date).days <= threshold_days, at clock t
is_subscription_active(t, last_email_date) ==
    TimedeltaDays(t - last_email_date) <= threshold_days

trial_patterns ==
    <<"free trial", "trial period", "trial ends", "trial will end",
      "trial expir">>

\* [A-Za-z]+\s+\d{1,2}(?:st|nd|rd|th)?,?\s+\d{4}
DateLong ==
    Cat(<< Plus(Cls("alpha")), Blank, Rep(Cls("digit"), 1, 2),
           Opt(Alt(<<Lit("st"), Lit("nd"), Lit("rd"), Lit("th")>>)),
           Opt(Lit(",")), Blank, Rep(Cls("digit"), 4, 4) >>)

\* \d{1,2}[/-]\d{1,2}[/-]\d{2,4}
DateNumeric ==
    Cat(<< Rep(Cls("digit"), 1, 2), Cls("slashdash"), Rep(Cls("digit"), 1, 2),
           Cls("slashdash"), Rep(Cls("digit"), 2, 4) >>)

\* trial\s+(?:will\s+)?end(?:s|ing)?\s+
TrialEnds ==
    Cat(<< Lit("trial"), Blank, Opt(Cat(<<Lit("will"), Blank>>)), Lit("end"),
           Opt(Alt(<<Lit("s"), Lit("ing")>>)), Blank >>)

OptionalOn == Opt(Cat(<<Lit("on"), Blank>>))

\* each pattern as <<what precedes the group, the group>>
date_patterns ==
    << <<Cat(<<TrialEnds, Lit("on"), Blank>>), DateLong>>,
       <<Cat(<<TrialEnds, OptionalOn>>), DateNumeric>>,
       <<Cat(<<Lit("until"), Blank>>), DateLong>>,
       <<Cat(<<Lit("expires"), Blank, OptionalOn>>), DateLong>> >>

\* lines 160-164: the first format that parses date_str, or None
RECURSIVE FirstParse(_, _)
FirstParse(date_str, k) ==
    IF k > Len(DateFormats) THEN None
    ELSE IF strptime(date_str, DateFormats[k]) # None
    THEN strptime(date_str, DateFormats[k])
    ELSE FirstParse(date_str, k + 1)

\* lines 154-166: the first pattern, in order, whose match parses
RECURSIVE FirstDate(_, _)
FirstDate(email_content, k) ==
    IF k > Len(date_patterns) THEN None
    ELSE Bind(SearchGroup(date_patterns[k], email_content, 1),
              LAMBDA m : IF m # None /\ FirstParse(m[1], 1) # None
                         THEN FirstParse(m[1], 1)
                         ELSE FirstDate(email_content, k + 1))

\* the end date looked for whether or not the text is about a trial
detect_free_trial_DateAnyway(email_content) ==
    <<SearchAny(trial_patterns, email_content), FirstDate(email_content, 1)>>

\* <<is_free_trial, end_date>>
detect_free_trial(email_content) ==
    IF ~SearchAny(trial_patterns, email_content) THEN <<FALSE, None>>
    ELSE <<TRUE, FirstDate(email_content, 1)>>

\* fractions: a + b
FracAdd(a, b) == Frac(a[1] * b[2] + b[1] * a[2], a[2] * b[2])

\* a list of keys that keeps every occurrence: a list used where a dict is
KeysInOrder_Repeating(seq, seen) == seq

\* the distinct values of seq in the order they first occur: the keys of a
\* dict filled in one pass over seq
RECURSIVE KeysInOrder(_, _)
KeysInOrder(seq, seen) ==
    IF seq = <<>> THEN <<>>
    ELSE IF Head(seq) \in seen THEN KeysInOrder(Tail(seq), seen)
    ELSE <<Head(seq)>> \o KeysInOrder(Tail(seq), seen \cup {Head(seq)})

\* lines 186-187: the key an email is grouped under
GroupKey(email) ==
    LET from_domain ==
            IF Contains(email.from, "@")
            THEN First(str_split(Last(str_split(email.from, "@")), ">"))
            ELSE ""
    IN  IF email.service_name # None THEN email.service_name[1]
        ELSE str_title(First(str_split(from_domain, ".")))

\* lines 184-192: service_emails, as its keys in insertion order and the list
\* under each key
ServiceNames(emails) ==
    KeysInOrder([k \in 1..Len(emails) |-> GroupKey(emails[k])], {})

\* a group that line 192 assigns instead of appending to: it holds the last
\* email of the service only
ServiceEmails_Overwritten(emails, service_name) ==
    LET group == SelectSeq(emails, LAMBDA e : GroupKey(e) = service_name)
    IN  <<group[Len(group)]>>

ServiceEmails(emails, service_name) ==
    SelectSeq(emails, LAMBDA e : GroupKey(e) = service_name)

\* sort(key=timestamp) and then reverse(): emails of one timestamp end up in
\* the opposite order
RECURSIVE SortNewestFirst_Reversed(_)
SortNewestFirst_Reversed(list) ==
    IF list = <<>> THEN <<>>
    ELSE Bind(SortNewestFirst_Reversed(SubSeq(list, 1, Len(list) - 1)),
              LAMBDA sorted :
                  LET e == list[Len(list)]
                  IN  SelectSeq(sorted, LAMBDA x : x.timestamp > e.timestamp)
                          \o <<e>>
                          \o SelectSeq(sorted,
                                       LAMBDA x : x.timestamp <= e.timestamp))

\* list.sort(key=timestamp, reverse=True): stable, so emails of one timestamp
\* keep their order
RECURSIVE SortNewestFirst(_)
SortNewestFirst(list) ==
    IF list = <<>> THEN <<>>
    ELSE Bind(SortNewestFirst(SubSeq(list, 1, Len(list) - 1)),
              LAMBDA sorted :
                  LET e == list[Len(list)]
                  IN  SelectSeq(sorted, LAMBDA x : x.timestamp >= e.timestamp)
                          \o <<e>>
                          \o SelectSeq(sorted,
                                       LAMBDA x : x.timestamp < e.timestamp))

\* hasattr(latest_email, name): an email is a dict, which has no such attribute
HasAttr(email, name) == FALSE

\* lines 216-220: amount_counts[amount]
AmountCount(amounts, amount) ==
    Cardinality({k \in 1..Len(amounts) : amounts[k][1] = amount})

\* a maximum that moves on to a later key of the same count
RECURSIVE MaxByCount_LastWins(_, _, _)
MaxByCount_LastWins(amounts, keys, best) ==
    IF keys = <<>> THEN best
    ELSE MaxByCount_LastWins(amounts, Tail(keys),
                    IF AmountCount(amounts, Head(keys)) >= AmountCount(amounts, best)
                    THEN Head(keys) ELSE best)

\* max(amount_counts.items(), key=count)[0] over the keys from best on: max
\* keeps the item it holds unless a later one counts strictly more
RECURSIVE MaxByCount(_, _, _)
MaxByCount(amounts, keys, best) ==
    IF keys = <<>> THEN best
    ELSE MaxByCount(amounts, Tail(keys),
                    IF AmountCount(amounts, Head(keys)) > AmountCount(amounts, best)
                    THEN Head(keys) ELSE best)

\* lines 212-229: <<subscription_amount, currency>> from the extracted pairs
SelectAmount(amounts) ==
    IF amounts = <<>> THEN <<None, "USD">>
    ELSE LET keys == KeysInOrder([k \in 1..Len(amounts) |-> amounts[k][1]], {})
             most_common_amount == MaxByCount(amounts, Tail(keys), Head(keys))
             first == CHOOSE k \in 1..Len(amounts) :
                          /\ amounts[k][1] = most_common_amount
                          /\ \A j \in 1..(k - 1) : amounts[j][1] # most_common_amount
         IN  <<Some(most_common_amount), amounts[first][2]>>

\* lines 238-245: the frequency inferred from keywords
InferFrequency(email_body) ==
    IF SearchAny(<<"monthly", "per month", "/month">>, email_body)
    THEN "Monthly"
    ELSE IF SearchAny(<<"annual", "yearly", "per year", "/year">>, email_body)
    THEN "Annual"
    ELSE IF SearchAny(<<"quarterly", "per quarter", "every 3 months">>,
                      email_body)
    THEN "Quarterly"
    ELSE "Unknown"

\* lines 232-245
BillingFrequency(latest_email, email_body) ==
    LET found == IF HasAttr(latest_email, "extract_billing_frequency")
                 THEN extract_billing_frequency(email_body)
                 ELSE None
    IN  IF found # None THEN found[1] ELSE InferFrequency(email_body)

\* a monthly cost that defaults to 0 where there is no amount
MonthlyCost_ZeroDefault(subscription_amount, billing_frequency) ==
    IF subscription_amount # None
    THEN Some(calculate_monthly_cost(subscription_amount[1],
                                Some(billing_frequency)))
    ELSE Some(<<0, 1>>)

\* lines 254-256
MonthlyCost(subscription_amount, billing_frequency) ==
    IF subscription_amount # None
    THEN Some(calculate_monthly_cost(subscription_amount[1],
                                Some(billing_frequency)))
    ELSE None

\* lines 196-272: the record of one service, built at clock t
SubscriptionFrom(service_name, service_email_list, t) ==
    LET latest_email == service_email_list[1]
        email_date == fromtimestamp(latest_email.timestamp)
        email_body == latest_email.body_text
        amounts == IF HasAttr(latest_email, "extract_currency_amounts")
                   THEN extract_currency_amounts(email_body)
                   ELSE <<>>
        selected == SelectAmount(amounts)
        billing_frequency == BillingFrequency(latest_email, email_body)
        trial == detect_free_trial(email_body)
    IN  [ service_name |-> service_name,
          category |-> categorize_subscription(service_name, email_body),
          amount |-> selected[1],
          currency |-> selected[2],
          billing_frequency |-> billing_frequency,
          monthly_cost |-> MonthlyCost(selected[1], billing_frequency),
          last_email_date |-> email_date,
          is_active |-> is_subscription_active(t, email_date),
          is_free_trial |-> trial[1],
          trial_end_date |-> trial[2],
          email_count |-> Len(service_email_list),
          latest_email_id |-> latest_email.id ]

Subscription(service_name, group, t) ==
    Bind(SortNewestFirst(group),
         LAMBDA service_email_list :
             SubscriptionFrom(service_name, service_email_list, t))

\* the list given to the call sorted in place, newest first
EmailsAfterAnalysis_SortedInPlace(emails) == SortNewestFirst(emails)

\* lines 184-204: the list given to analyze_subscription_emails, as the call
\* leaves it.  The loop of line 185 reads the list, line 192 appends each
\* email to a list of service_emails made at line 190, line 197 sorts those
\* lists, and the emails are read with get() only.
EmailsAfterAnalysis(emails) == emails

analyze_subscription_emails(emails, t) ==
    Bind(ServiceNames(emails),
         LAMBDA names :
             [k \in 1..Len(names) |->
                 Subscription(names[k], ServiceEmails(emails, names[k]), t)])

\* a list of active records that keeps the inactive ones
ActiveSubscriptions_All(subs) == subs

\* line 289
ActiveSubscriptions(subs) == SelectSeq(subs, LAMBDA sub : sub.is_active)

\* sum(...) of the monthly_cost of subs that is not None; sum starts from 0
RECURSIVE SumMonthlyCost(_)
SumMonthlyCost(subs) ==
    IF subs = <<>> THEN <<0, 1>>
    ELSE FracAdd(IF Head(subs).monthly_cost # None
                 THEN Head(subs).monthly_cost[1] ELSE <<0, 1>>,
                 SumMonthlyCost(Tail(subs)))

\* a dict of categories that starts with an empty 'Other' entry
Categories_WithOther(active) ==
    [c \in {active[k].category : k \in 1..Len(active)} \cup {"Other"} |->
        LET members == SelectSeq(active, LAMBDA sub : sub.category = c)
        IN  [count |-> Len(members), monthly_cost |-> SumMonthlyCost(members)]]

\* lines 298-308: the dict of categories, as a function on its keys
Categories(active) ==
    [c \in {active[k].category : k \in 1..Len(active)} |->
        LET members == SelectSeq(active, LAMBDA sub : sub.category = c)
        IN  [count |-> Len(members), monthly_cost |-> SumMonthlyCost(members)]]

trial_window_days == 14

unused_threshold == 60

\* trials that end on the day they are looked at, or before
TrialsEndingSoon_PastToo(subs, current_date) ==
    SelectSeq(subs, LAMBDA sub :
        /\ sub.is_free_trial
        /\ sub.trial_end_date # None
        /\ TimedeltaDays(sub.trial_end_date[1] - current_date)
               <= trial_window_days)

\* lines 312-317
TrialsEndingSoon(subs, current_date) ==
    SelectSeq(subs, LAMBDA sub :
        /\ sub.is_free_trial
        /\ sub.trial_end_date # None
        /\ sub.trial_end_date[1] > current_date
        /\ TimedeltaDays(sub.trial_end_date[1] - current_date)
               <= trial_window_days)

\* lines 321-324
UnusedSubscriptions(active_subscriptions, current_date) ==
    SelectSeq(active_subscriptions, LAMBDA sub :
        TimedeltaDays(current_date - sub.last_email_date) > unused_threshold)

\* the report, at clock t
generate_summary_report(subs, t) ==
    LET active_subscriptions == ActiveSubscriptions(subs)
        total_monthly_cost == SumMonthlyCost(active_subscriptions)
        current_date == t
    IN  [ total_subscriptions |-> Len(subs),
          active_subscriptions |-> Len(active_subscriptions),
          total_monthly_cost |-> total_monthly_cost,
          annual_projection |-> Frac(total_monthly_cost[1] * 12,
                                     total_monthly_cost[2]),
          categories |-> Categories(active_subscriptions),
          trials_ending_soon |-> TrialsEndingSoon(subs, current_date),
          unused_subscriptions |->
              UnusedSubscriptions(active_subscriptions, current_date) ]

-----------------------------------------------------------------------------
(* The messages of a scan *)

MaxEmails == 2

MaxClockDays == 1

\* the clock at the start: 2026-01-01 00:00
StartDay == 20454
Now0 == StartDay * SecondsPerDay

\* sender, subject and body of the messages the mail source may hold
Contents ==
    { [from |-> "billing@netflix.com", subject |-> "Your subscription",
       body_text |-> "Your plan: $15.49 per month. Then $15.49, not $4.99"],
      [from |-> "billing@NETFLIX.COM", subject |-> "Payment receipt",
       body_text |-> ""],
      [from |-> "Bob <bob@gmail.com>", subject |-> "Welcome",
       body_text |-> "Gym pass 10 GBP weekly. Free trial ends on January 10, 2026"],
      [from |-> "Bob <bob@GMAIL.COM>", subject |-> "Welcome",
       body_text |-> "Billed each month: 5 EUR"],
      [from |-> "", subject |-> "Your Hulu invoice",
       body_text |-> "Annual plan 120 dollars"] }

\* ages of the messages at the start, in days
Ages == {10, 60, 90}

\* a message as extract_email_content returns it: no service_name and no
\* agent_analysis yet
RawMessage(i, c, age) ==
    [ id |-> "m" \o ToString(i),
      from |-> c.from,
      subject |-> c.subject,
      body_text |-> c.body_text,
      timestamp |-> Now0 - age * SecondsPerDay,
      service_name |-> None,
      agent_analysis |-> None ]

\* scan_for_subscriptions returns each message id once
Inboxes ==
    UNION { { [i \in 1..n |-> RawMessage(i, c[i], a[i])] :
                c \in [1..n -> Contents], a \in [1..n -> Ages] } :
            n \in 0..MaxEmails }

\* the Agent's reply to "Analyze this email content ...": an outside service,
\* whose text the pipeline stores and never reads
AgentMessage == "analysis"

-----------------------------------------------------------------------------
(* GmailSubAgent *)

Init ==
    /\ inbox \in Inboxes
    /\ now = Now0
    /\ subscriptions = <<>>
    /\ summary = <<>>
    /\ op = "init"
    /\ opAt = Now0
    /\ args = <<>>
    /\ ret = <<>>

\* time passes between calls
Tick ==
    /\ now + SecondsPerDay <= Now0 + MaxClockDays * SecondsPerDay
    /\ now' = now + SecondsPerDay
    /\ UNCHANGED <<inbox, subscriptions, summary, op, opAt, args, ret>>

\* lines 183-195 of agent.py: the emails with service_name and agent_analysis
ProcessedEmails(emails) ==
    [k \in 1..Len(emails) |->
        [emails[k] EXCEPT
            !.service_name = Some(extract_service_name(emails[k])),
            !.agent_analysis = IF emails[k].body_text # ""
                               THEN Some(AgentMessage) ELSE None]]

\* scan_gmail when authenticate() fails
ScanGmailNoAuth ==
    /\ op' = "scan_gmail_failed"
    /\ opAt' = now
    /\ args' = <<>>
    /\ ret' = <<>>
    /\ UNCHANGED <<inbox, now, subscriptions, summary>>

\* scan_gmail: args' is processed_emails after the analysis
ScanGmail ==
    /\ \E processed_emails \in {ProcessedEmails(inbox)} :
           /\ subscriptions' = analyze_subscription_emails(processed_emails, now)
           /\ args' = EmailsAfterAnalysis(processed_emails)
    /\ summary' = generate_summary_report(subscriptions', now)
    /\ op' = "scan_gmail"
    /\ opAt' = now
    /\ ret' = subscriptions'
    /\ UNCHANGED <<inbox, now>>

\* SubscriptionAnalyzer.analyze_subscription_emails called on the messages as
\* fetched
AnalyzeSubscriptionEmails ==
    /\ op' = "analyze_subscription_emails"
    /\ opAt' = now
    /\ ret' = analyze_subscription_emails(inbox, now)
    /\ args' = EmailsAfterAnalysis(inbox)
    /\ UNCHANGED <<inbox, now, subscriptions, summary>>

\* The values of last_email_date and trial_end_date are of two Python types.
\* A datetime is its number of seconds since the epoch, which is not
\* negative; the str 'YYYY-MM-DD' is the number -YYYYMMDD that its digits
\* spell, which is negative: a value of one type is never a value of the
\* other.
StrDate(y, m, d) == 0 - (y * 10000 + m * 100 + d)

\* isinstance(v, datetime)
isinstance_datetime(v) == v >= 0

YearOf(days) ==
    CHOOSE y \in (1970 + days \div 366)..(1970 + days \div 365) :
        DaysFromCivil(y, 1, 1) <= days /\ days < DaysFromCivil(y + 1, 1, 1)

MonthOf(days, y) ==
    CHOOSE m \in 1..12 :
        /\ DaysFromCivil(y, m, 1) <= days
        /\ days < DaysFromCivil(y, m, 1) + DaysInMonth(y, m)

\* v.strftime('%Y-%m-%d'): the time of day is dropped
strftime(v) ==
    LET days == v \div SecondsPerDay
        y == YearOf(days)
        m == MonthOf(days, y)
    IN  StrDate(y, m, days - DaysFromCivil(y, m, 1) + 1)

\* lines 233-238 of agent.py: the record after its date fields that are
\* datetimes are replaced, in the stored dict itself, by their strftime
DatesAsStrings(sub) ==
    [sub EXCEPT
        !.last_email_date = IF isinstance_datetime(@) THEN strftime(@) ELSE @,
        !.trial_end_date = IF @ # None /\ isinstance_datetime(@[1])
                           THEN Some(strftime(@[1])) ELSE @]

\* lines 222-226 and 241: the fields of sub that are written
CsvRow(sub) ==
    [ service_name |-> sub.service_name,
      category |-> sub.category,
      amount |-> sub.amount,
      currency |-> sub.currency,
      billing_frequency |-> sub.billing_frequency,
      monthly_cost |-> sub.monthly_cost,
      last_email_date |-> sub.last_email_date,
      is_active |-> sub.is_active,
      is_free_trial |-> sub.is_free_trial ]

\* export_to_csv: what it returns, the rows of the file it writes (None when
\* it writes no file) and the stored records it leaves.  open() raises when
\* the path is not writable, before any record is touched.
export_to_csv(subs, writable) ==
    IF subs = <<>> \/ ~writable
    THEN [ok |-> FALSE, rows |-> None, subscriptions |-> subs]
    ELSE Bind([k \in 1..Len(subs) |-> DatesAsStrings(subs[k])],
              LAMBDA exported :
                  [ ok |-> TRUE,
                    rows |-> Some([k \in 1..Len(subs) |-> CsvRow(exported[k])]),
                    subscriptions |-> exported ])

ExportToCsv ==
    /\ \E writable \in BOOLEAN :
           \E result \in {export_to_csv(subscriptions, writable)} :
               /\ subscriptions' = result.subscriptions
               /\ ret' = [ok |-> result.ok, rows |-> result.rows]
    /\ op' = "export_to_csv"
    /\ opAt' = now
    /\ args' = subscriptions
    /\ UNCHANGED <<inbox, now, summary>>

\* lines 312-324 of subscription_analyzer.py on a record whose date is a str:
\* str > datetime (line 315) and datetime - str (line 323) raise TypeError
DateArithmeticRaises(subs) ==
    \/ \E k \in 1..Len(subs) :
           /\ subs[k].is_free_trial
           /\ subs[k].trial_end_date # None
           /\ ~isinstance_datetime(subs[k].trial_end_date[1])
    \/ \E k \in 1..Len(subs) :
           /\ subs[k].is_active
           /\ ~isinstance_datetime(subs[k].last_email_date)

TypeError == [raised |-> "TypeError"]

\* generate_summary: the report, or the exception that leaves the call
generate_summary(subs, t) ==
    IF DateArithmeticRaises(subs) THEN TypeError
    ELSE generate_summary_report(subs, t)

\* the generate_summary tool on the stored records
GenerateSummary ==
    /\ op' = "generate_summary"
    /\ opAt' = now
    /\ args' = subscriptions
    /\ ret' = generate_summary(subscriptions, now)
    /\ UNCHANGED <<inbox, now, subscriptions, summary>>

GetSummary ==
    /\ op' = "get_summary"
    /\ opAt' = now
    /\ args' = <<>>
    /\ ret' = summary
    /\ UNCHANGED <<inbox, now, subscriptions, summary>>

Next ==
    \/ Tick
    \/ ScanGmailNoAuth
    \/ ScanGmail
    \/ AnalyzeSubscriptionEmails
    \/ GenerateSummary
    \/ GetSummary

Spec == Init /\ [][Next]_vars

\* the agent with its export: scans, exports and summaries of the stored
\* records at one clock
NextExport ==
    \/ ScanGmail
    \/ ExportToCsv
    \/ GenerateSummary

SpecExport == Init /\ [][NextExport]_vars

-----------------------------------------------------------------------------
(* The amount selection of lines 211-229 on its own: the list of extracted  *)
(* pairs is args, the selection is ret                                       *)

MaxAmounts == 4

AmountValues == {<<999, 100>>, <<5, 1>>, <<12, 1>>}

Currencies == {"USD", "GBP"}

AmountLists ==
    UNION { [1..n -> AmountValues \X Currencies] : n \in 1..MaxAmounts }

InitAmounts ==
    /\ inbox = <<>>
    /\ now = Now0
    /\ subscriptions = <<>>
    /\ summary = <<>>
    /\ op = "init"
    /\ opAt = Now0
    /\ args \in AmountLists
    /\ ret = <<>>

SelectSubscriptionAmount ==
    /\ op = "init"
    /\ op' = "select_amount"
    /\ ret' = SelectAmount(args)
    /\ UNCHANGED <<inbox, now, subscriptions, summary, opAt, args>>

NextAmounts == SelectSubscriptionAmount

SpecAmounts == InitAmounts /\ [][NextAmounts]_vars

-----------------------------------------------------------------------------
(* is_subscription_active on its own: last_email_date is args, the answer   *)
(* is ret                                                                    *)

MaxElapsedDays == 91

\* seconds into a day
Offsets == {0, 1, SecondsPerDay - 1}

InitActive ==
    /\ inbox = <<>>
    /\ now = Now0
    /\ subscriptions = <<>>
    /\ summary = <<>>
    /\ op = "init"
    /\ opAt = Now0
    /\ \E d \in (-1)..MaxElapsedDays, o \in Offsets :
           args = Now0 - (d * SecondsPerDay + o)
    /\ ret = FALSE

IsSubscriptionActive ==
    /\ op = "init"
    /\ op' = "is_subscription_active"
    /\ ret' = is_subscription_active(now, args)
    /\ UNCHANGED <<inbox, now, subscriptions, summary, opAt, args>>

NextActive == IsSubscriptionActive

SpecActive == InitActive /\ [][NextActive]_vars

-----------------------------------------------------------------------------
(* generate_summary_report on its own: the records are args, the report is  *)
(* ret, the clock stands at Now0                                             *)

MaxRecords == 2

\* a record as analyze_subscription_emails lays it out, with the fields the
\* report reads set as given
Record(active, cost, category, age, trial, trial_end) ==
    [ service_name |-> "Service",
      category |-> category,
      amount |-> cost,
      currency |-> "USD",
      billing_frequency |-> "Monthly",
      monthly_cost |-> cost,
      last_email_date |-> Now0 - age,
      is_active |-> active,
      is_free_trial |-> trial,
      trial_end_date |-> trial_end,
      email_count |-> 1,
      latest_email_id |-> "m1" ]

RecordCosts == {None, Some(<<999, 100>>), Some(<<10, 1>>)}

RecordCategories == {"Streaming", "Other"}

\* seconds since the last email
RecordAges ==
    {10 * SecondsPerDay, 60 * SecondsPerDay + 1, 61 * SecondsPerDay}

Records ==
    { Record(active, cost, category, age, FALSE, None) :
          active \in BOOLEAN, cost \in RecordCosts,
          category \in RecordCategories, age \in RecordAges }

InitSummary ==
    /\ inbox = <<>>
    /\ now = Now0
    /\ subscriptions = <<>>
    /\ summary = <<>>
    /\ op = "init"
    /\ opAt = Now0
    /\ args \in UNION { [1..n -> Records] : n \in 0..MaxRecords }
    /\ ret = <<>>

GenerateSummaryReport ==
    /\ op = "init"
    /\ op' = "generate_summary_report"
    /\ ret' = generate_summary_report(args, now)
    /\ UNCHANGED <<inbox, now, subscriptions, summary, opAt, args>>

NextSummary == GenerateSummaryReport

SpecSummary == InitSummary /\ [][NextSummary]_vars

-----------------------------------------------------------------------------
(* generate_summary_report on records of trials: the records are args, the  *)
(* report is ret, the clock stands at Now0                                   *)

MaxTrialRecords == 2

\* seconds from the clock to the end of the trial
TrialEndOffsets ==
    { 0 - SecondsPerDay, 0, 1, 5 * SecondsPerDay, 14 * SecondsPerDay,
      14 * SecondsPerDay + 1, 15 * SecondsPerDay - 1, 15 * SecondsPerDay,
      20 * SecondsPerDay }

TrialEndDates == {None} \cup {Some(Now0 + o) : o \in TrialEndOffsets}

TrialRecords ==
    { Record(active, None, "Other", 10 * SecondsPerDay, trial, trial_end) :
          active \in BOOLEAN, trial \in BOOLEAN, trial_end \in TrialEndDates }

InitTrials ==
    /\ inbox = <<>>
    /\ now = Now0
    /\ subscriptions = <<>>
    /\ summary = <<>>
    /\ op = "init"
    /\ opAt = Now0
    /\ args \in UNION { [1..n -> TrialRecords] : n \in 0..MaxTrialRecords }
    /\ ret = <<>>

SummariseTrials ==
    /\ op = "init"
    /\ op' = "summarise_trials"
    /\ ret' = generate_summary_report(args, now)
    /\ UNCHANGED <<inbox, now, subscriptions, summary, opAt, args>>

NextTrials == SummariseTrials

SpecTrials == InitTrials /\ [][NextTrials]_vars

-----------------------------------------------------------------------------
(* calculate_monthly_cost on its own: args is <<amount, frequency>>, ret    *)
(* the monthly cost                                                          *)

CostAmounts == {<<120, 1>>, <<999, 100>>, <<30, 1>>, <<0, 1>>}

CostFrequencies ==
    {None} \cup
    { Some(f) : f \in
        { "", "Monthly", "Annual", "ANNUAL", "annually", "Yearly",
          "Half-yearly", "Quarterly", "Weekly", "Biweekly", "Daily", "Unknown",
          "weekly, billed annually", "yearly or monthly", "Quarterly/Weekly",
          "daily or weekly", "Daily, then quarterly", "daily/yearly" } }

InitCost ==
    /\ inbox = <<>>
    /\ now = Now0
    /\ subscriptions = <<>>
    /\ summary = <<>>
    /\ op = "init"
    /\ opAt = Now0
    /\ args \in CostAmounts \X CostFrequencies
    /\ ret = <<>>

CalculateMonthlyCost ==
    /\ op = "init"
    /\ op' = "calculate_monthly_cost"
    /\ ret' = calculate_monthly_cost(args[1], args[2])
    /\ UNCHANGED <<inbox, now, subscriptions, summary, opAt, args>>

NextCost == CalculateMonthlyCost

SpecCost == InitCost /\ [][NextCost]_vars

-----------------------------------------------------------------------------
(* extract_billing_frequency on its own: args is the text, ret the result   *)

FrequencyPhrases ==
    { "", "Billed monthly", "MONTH-TO-MONTH", "ANNUAL plan",
      "Renews every year", "$30/Year", "per quarter", "3-month term",
      "each week", "Weekly Subscription", "no schedule" }

\* one phrase, or two with a full stop between them
FrequencyTexts ==
    FrequencyPhrases
        \cup {a \o ". " \o b : a, b \in FrequencyPhrases \ {""}}

InitFrequency ==
    /\ inbox = <<>>
    /\ now = Now0
    /\ subscriptions = <<>>
    /\ summary = <<>>
    /\ op = "init"
    /\ opAt = Now0
    /\ args \in FrequencyTexts
    /\ ret = <<>>

ExtractBillingFrequency ==
    /\ op = "init"
    /\ op' = "extract_billing_frequency"
    /\ ret' = extract_billing_frequency(args)
    /\ UNCHANGED <<inbox, now, subscriptions, summary, opAt, args>>

NextFrequency == ExtractBillingFrequency

SpecFrequency == InitFrequency /\ [][NextFrequency]_vars

-----------------------------------------------------------------------------
(* categorize_subscription on its own: args is <<service_name,              *)
(* email_content>>, ret the category                                         *)

CategoryServiceNames ==
    { "", "Netflix Inc", "RandomCo", "AMAZON Web Services",
      "Amazon Prime Video", "Planet Gym", "Google Cloud", "Box", "Medium",
      "NordVPN" }

CategoryContents ==
    { "", "no keywords here", "Watch NETFLIX tonight",
      "Your Xbox Game Pass is ready", "Password manager renewal",
      "Azure credits, hosted on AWS", "The Economist, weekly" }

InitCategory ==
    /\ inbox = <<>>
    /\ now = Now0
    /\ subscriptions = <<>>
    /\ summary = <<>>
    /\ op = "init"
    /\ opAt = Now0
    /\ args \in CategoryServiceNames \X CategoryContents
    /\ ret = <<>>

CategorizeSubscription ==
    /\ op = "init"
    /\ op' = "categorize_subscription"
    /\ ret' = categorize_subscription(args[1], args[2])
    /\ UNCHANGED <<inbox, now, subscriptions, summary, opAt, args>>

NextCategory == CategorizeSubscription

SpecCategory == InitCategory /\ [][NextCategory]_vars

-----------------------------------------------------------------------------
(* extract_currency_amounts on its own: args is the text, ret the list of   *)
(* <<amount, currency>>                                                      *)

PriceNumbers == {"10.99", "7", "1,50"}

\* a symbol before the number, a symbol after it, a code or a word after it
PriceTexts ==
    { "", "no price here" }
        \cup {c \o n : c \in {"$", "£ ", "€"}, n \in PriceNumbers}
        \cup {n \o c : n \in PriceNumbers,
                       c \in { "$", " £", "€", " USD", " usd", " GBP", " gbp",
                               "Gbp", " EUR", " Eur", " eur", " dollars",
                               " Dollars", " pounds", " POUNDS", " euros",
                               " Euros" }}

InitCurrency ==
    /\ inbox = <<>>
    /\ now = Now0
    /\ subscriptions = <<>>
    /\ summary = <<>>
    /\ op = "init"
    /\ opAt = Now0
    /\ args \in PriceTexts
    /\ ret = <<>>

ExtractCurrencyAmounts ==
    /\ op = "init"
    /\ op' = "extract_currency_amounts"
    /\ ret' = extract_currency_amounts(args)
    /\ UNCHANGED <<inbox, now, subscriptions, summary, opAt, args>>

NextCurrency == ExtractCurrencyAmounts

SpecCurrency == InitCurrency /\ [][NextCurrency]_vars

-----------------------------------------------------------------------------
(* detect_free_trial on its own: args is the text, ret is <<is_free_trial,  *)
(* end_date>>                                                                *)

TrialOpenings ==
    { "Free trial ends on ", "Your TRIAL PERIOD: trial will end ",
      "Trial expires on ", "Your free trial runs until ",
      "Offer valid until ", "Your plan ends on " }

TrialDateTexts ==
    { "", "soon", "January 10, 2026", "january 10th, 2026", "March 3 2026",
      "Foo 10, 2026", "1/2/26", "13/01/2026", "02/30/2026", "1-2-2026" }

\* an opening and a date, or two such sentences
TrialTexts ==
    {o \o d : o \in TrialOpenings, d \in TrialDateTexts}
        \cup { "Free trial ends on Foo 10, 2026. Expires on March 1, 2026",
               "Free trial ends on 31/12/2026, until March 1, 2026",
               "Trial ends 12/31/2026" }

InitTrial ==
    /\ inbox = <<>>
    /\ now = Now0
    /\ subscriptions = <<>>
    /\ summary = <<>>
    /\ op = "init"
    /\ opAt = Now0
    /\ args \in TrialTexts
    /\ ret = <<>>

DetectFreeTrial ==
    /\ op = "init"
    /\ op' = "detect_free_trial"
    /\ ret' = detect_free_trial(args)
    /\ UNCHANGED <<inbox, now, subscriptions, summary, opAt, args>>

NextTrial == DetectFreeTrial

SpecTrial == InitTrial /\ [][NextTrial]_vars

-----------------------------------------------------------------------------
(* The service name of one message: args is the message as fetched, ret is  *)
(* <<extract_service_name of it, the key analyze_subscription_emails groups *)
(* it under as fetched, the key it groups it under once scan_gmail has set  *)
(* its service_name>>                                                        *)

SenderFields ==
    { "", "@", "<@>", "a@.com", " Bob", " x@netflix.com",
      "billing@netflix.com", "Bob <bob@gmail.com>", "x@gmail.com", "\"<",
      "Netflix <info@mail.netflix.com>" }

SubjectFields ==
    {"", "hello", "Welcome", "Your Hulu invoice", "Spotify receipt"}

InitServiceName ==
    /\ inbox = <<>>
    /\ now = Now0
    /\ subscriptions = <<>>
    /\ summary = <<>>
    /\ op = "init"
    /\ opAt = Now0
    /\ \E f \in SenderFields, subject \in SubjectFields :
           args = RawMessage(1, [from |-> f, subject |-> subject,
                                 body_text |-> ""], 10)
    /\ ret = <<>>

ExtractServiceName ==
    /\ op = "init"
    /\ op' = "extract_service_name"
    /\ ret' = << extract_service_name(args),
                 GroupKey(args),
                 GroupKey(ProcessedEmails(<<args>>)[1]) >>
    /\ UNCHANGED <<inbox, now, subscriptions, summary, opAt, args>>

NextServiceName == ExtractServiceName

SpecServiceName == InitServiceName /\ [][NextServiceName]_vars

-----------------------------------------------------------------------------
(* Python float: binary64.  A float that is not negative is <<mantissa,     *)
(* exponent>> and stands for mantissa * 2^exponent; the mantissa is a        *)
(* sequence of bits, the most significant first, with no 0 at either end,    *)
(* and is <<>> for 0.  The amounts of a report are far from the largest and  *)
(* the smallest float, so there is neither overflow nor a subnormal result.  *)

\* the bits of the significand of a binary64
MantissaBits == 53

\* the number n < 2^width in width bits
BitsOf(n, width) == [k \in 1..width |-> (n \div 2^(width - k)) % 2]

Zeros(n) == [k \in 1..n |-> 0]

PadLeft(bits, n) == Zeros(n - Len(bits)) \o bits

\* the float bits * 2^e, with its mantissa stripped of the zeros at its ends
Canonical(bits, e) ==
    IF \A k \in 1..Len(bits) : bits[k] = 0 THEN <<<<>>, 0>>
    ELSE LET first == CHOOSE k \in 1..Len(bits) :
                          bits[k] = 1 /\ \A j \in 1..(k - 1) : bits[j] = 0
             last == CHOOSE k \in 1..Len(bits) :
                         bits[k] = 1 /\ \A j \in (k + 1)..Len(bits) : bits[j] = 0
         IN  <<SubSeq(bits, first, last), e + Len(bits) - last>>

\* the carry into bit k of x + y: a bit to its right makes a carry and every
\* bit between passes it on
Carry(x, y, k) ==
    \E j \in (k + 1)..Len(x) :
        /\ x[j] = 1 /\ y[j] = 1
        /\ \A m \in (k + 1)..(j - 1) : x[m] # y[m]

\* x + y for two numbers of as many bits, in one bit more
AddBits(x, y) ==
    [k \in 1..(Len(x) + 1) |->
        ( (IF k = 1 THEN 0 ELSE x[k - 1] + y[k - 1])
          + (IF Carry(x, y, k - 1) THEN 1 ELSE 0) ) % 2]

\* bits * 2^e rounded to MantissaBits bits, to the nearest and to the even
\* one of two that are as near
RoundBits(bits, e) ==
    Bind(Canonical(bits, e),
         LAMBDA c :
             IF Len(c[1]) <= MantissaBits THEN c
             ELSE LET kept == SubSeq(c[1], 1, MantissaBits)
                      dropped == SubSeq(c[1], MantissaBits + 1, Len(c[1]))
                      up == /\ dropped[1] = 1
                            /\ \/ Len(dropped) > 1
                               \/ kept[MantissaBits] = 1
                  IN  IF up
                      THEN Bind(AddBits(kept, Zeros(MantissaBits - 1) \o <<1>>),
                                LAMBDA rounded :
                                    Canonical(rounded, c[2] + Len(dropped)))
                      ELSE Bind(kept,
                                LAMBDA rounded :
                                    Canonical(rounded, c[2] + Len(dropped))))

\* a and b with their mantissas written to one exponent and one length
Aligned(a, b) ==
    LET e == IF a[2] < b[2] THEN a[2] ELSE b[2]
        n == IF Len(a[1]) + a[2] > Len(b[1]) + b[2]
             THEN Len(a[1]) + a[2] - e ELSE Len(b[1]) + b[2] - e
    IN  << PadLeft(a[1] \o Zeros(a[2] - e), n),
           PadLeft(b[1] \o Zeros(b[2] - e), n), e >>

\* a + b in float arithmetic
float_add(a, b) ==
    IF a[1] = <<>> THEN b
    ELSE IF b[1] = <<>> THEN a
    ELSE Bind(Aligned(a, b),
              LAMBDA xy : Bind(AddBits(xy[1], xy[2]),
                               LAMBDA sum : RoundBits(sum, xy[3])))

\* the float (m2 * 2^36 + m1 * 2^18 + m0) * 2^e
Float(m2, m1, m0, e) ==
    Bind(BitsOf(m2, 17) \o BitsOf(m1, 18) \o BitsOf(m0, 18),
         LAMBDA bits : Canonical(bits, e))

\* the int 0 that sum() starts from
FloatZero == <<<<>>, 0>>

\* line 292 in float arithmetic: sum() adds from the left, starting from 0,
\* the monthly_cost of the records that have one
RECURSIVE FloatSumMonthlyCost(_)
FloatSumMonthlyCost(subs) ==
    IF subs = <<>> THEN FloatZero
    ELSE Bind(FloatSumMonthlyCost(SubSeq(subs, 1, Len(subs) - 1)),
              LAMBDA total :
                  IF subs[Len(subs)].monthly_cost # None
                  THEN float_add(total, subs[Len(subs)].monthly_cost[1])
                  ELSE total)

\* lines 298-308 in float arithmetic: each category starts from 0 and has
\* the monthly_cost of its records, or 0, added in the order of the list
FloatCategories(active) ==
    [c \in {active[k].category : k \in 1..Len(active)} |->
        LET members == SelectSeq(active, LAMBDA sub : sub.category = c)
        IN  [count |-> Len(members),
             monthly_cost |-> FloatSumMonthlyCost(members)]]

\* lines 289-308: the counts and the costs of the report, with the amounts
\* as floats
FloatReport(subs) ==
    LET active_subscriptions == ActiveSubscriptions(subs)
    IN  [ total_subscriptions |-> Len(subs),
          active_subscriptions |-> Len(active_subscriptions),
          total_monthly_cost |-> FloatSumMonthlyCost(active_subscriptions),
          categories |-> FloatCategories(active_subscriptions) ]

-----------------------------------------------------------------------------
(* The costs of generate_summary_report in float arithmetic: the records    *)
(* are args, the counts and costs of the report are ret                      *)

MaxFloatRecords == 3

\* 0.1 and 4.99 as float() reads them, and no cost
FloatCosts ==
    { None,
      Some(Float(104857, 157286, 104858, 0 - 56)),
      Some(Float(81756, 41943, 10486, 0 - 50)) }

FloatRecords ==
    { Record(active, cost, category, 10 * SecondsPerDay, FALSE, None) :
          active \in BOOLEAN, cost \in FloatCosts,
          category \in RecordCategories }

InitFloatReport ==
    /\ inbox = <<>>
    /\ now = Now0
    /\ subscriptions = <<>>
    /\ summary = <<>>
    /\ op = "init"
    /\ opAt = Now0
    /\ args \in UNION { [1..n -> FloatRecords] : n \in 0..MaxFloatRecords }
    /\ ret = <<>>

SummariseCosts ==
    /\ op = "init"
    /\ op' = "summarise_costs"
    /\ ret' = FloatReport(args)
    /\ UNCHANGED <<inbox, now, subscriptions, summary, opAt, args>>

NextFloatReport == SummariseCosts

SpecFloatReport == InitFloatReport /\ [][NextFloatReport]_vars

-----------------------------------------------------------------------------
(* Properties *)

\* the last operation built records: args are the emails it grouped, ret the
\* records
Built == op \in {"scan_gmail", "analyze_subscription_emails"}

\* the email a record names as its latest
LatestEmailOf(record) ==
    args[CHOOSE k \in 1..Len(args) : args[k].id = record.latest_email_id]

\* C1: analyze_subscription_emails returns exactly one record per service
\* identity: no two records share a service_name, and the service names of
\* the records are exactly the identities of the input messages, whatever
\* their body text.
C1_OneRecordPerService ==
    Built =>
        /\ \A i, j \in 1..Len(ret) :
               ret[i].service_name = ret[j].service_name => i = j
        /\ {ret[i].service_name : i \in 1..Len(ret)}
               = {GroupKey(args[k]) : k \in 1..Len(args)}

\* two messages of one service, one of them without body text, made one record
C1_Witness ==
    /\ op = "scan_gmail"
    /\ Len(args) = 2
    /\ Len(ret) = 1
    /\ \E k \in 1..2 : args[k].body_text = ""

\* C2: in every record, monthly_cost is null if and only if amount is null.
C2_MonthlyCostNullIffAmountNull ==
    Built =>
        \A i \in 1..Len(ret) : (ret[i].monthly_cost = None) <=> (ret[i].amount = None)

\* a record was built from a message whose body names a price
C2_Witness ==
    /\ Built
    /\ \E i \in 1..Len(ret) :
           /\ ret[i].amount = None
           /\ ret[i].monthly_cost = None
           /\ Contains(LatestEmailOf(ret[i]).body_text, "$15.49")

\* C3: whenever extract_currency_amounts finds a pair in the representative's
\* body, the record has an amount.
C3_AmountFromBody ==
    Built =>
        \A i \in 1..Len(ret) :
            extract_currency_amounts(LatestEmailOf(ret[i]).body_text) # <<>>
                => ret[i].amount # None

\* the first position in group of an email with the greatest timestamp
IsRepresentative(group, k) ==
    \A j \in 1..Len(group) :
        /\ group[j].timestamp <= group[k].timestamp
        /\ j < k => group[j].timestamp < group[k].timestamp

\* C4: the representative of a group is its email with the greatest
\* timestamp, the first of them in input order when several share it; the
\* record's last_email_date is that timestamp and its latest_email_id that
\* email's id.
C4_RepresentativeIsNewestFirstSeen ==
    Built =>
        \A i \in 1..Len(ret) :
            LET group == ServiceEmails(args, ret[i].service_name)
            IN  \E k \in 1..Len(group) :
                    /\ IsRepresentative(group, k)
                    /\ ret[i].last_email_date = fromtimestamp(group[k].timestamp)
                    /\ ret[i].latest_email_id = group[k].id

\* two emails of one service share the greatest timestamp
C4_Witness ==
    /\ Built
    /\ Len(args) = 2
    /\ Len(ret) = 1
    /\ args[1].timestamp = args[2].timestamp
    /\ ret[1].latest_email_id = args[1].id

\* the number of pairs of amounts that hold the amount a
Occurrences(amounts, a) ==
    Cardinality({k \in 1..Len(amounts) : amounts[k][1] = a})

\* the first position of the amount a in amounts
FirstPosition(amounts, a) ==
    CHOOSE k \in 1..Len(amounts) :
        /\ amounts[k][1] = a
        /\ \A j \in 1..(k - 1) : amounts[j][1] # a

\* C5: from a non-empty list of pairs, the selected amount is the one that
\* occurs most often, the first-seen one among those that tie, and the
\* selected currency is that of the first pair with the selected amount.
C5_MostCommonAmountFirstSeen ==
    op = "select_amount" =>
        /\ ret[1] # None
        /\ \A k \in 1..Len(args) :
               LET a == ret[1][1]
                   b == args[k][1]
               IN  /\ Occurrences(args, b) <= Occurrences(args, a)
                   /\ Occurrences(args, b) = Occurrences(args, a)
                          => FirstPosition(args, a) <= FirstPosition(args, b)
        /\ ret[2] = args[FirstPosition(args, ret[1][1])][2]

\* two amounts tie and the second one comes in two currencies
C5_Witness ==
    /\ op = "select_amount"
    /\ Len(args) = 4
    /\ args[1][1] # args[2][1]
    /\ args[3][1] = args[2][1]
    /\ args[4][1] = args[1][1]
    /\ args[4][2] # args[1][2]
    /\ ret = <<Some(args[1][1]), args[1][2]>>

\* C6: billing_frequency equals the result of extract_billing_frequency on
\* the representative's body when there is one, and is "Unknown" exactly
\* when extract_billing_frequency finds none.
C6_FrequencyFromExtractor ==
    Built =>
        \A i \in 1..Len(ret) :
            LET found == extract_billing_frequency(LatestEmailOf(ret[i]).body_text)
            IN  /\ found # None => ret[i].billing_frequency = found[1]
                /\ ret[i].billing_frequency = "Unknown" <=> found = None

\* the summary of no records
EmptyReport ==
    [ total_subscriptions |-> 0,
      active_subscriptions |-> 0,
      total_monthly_cost |-> <<0, 1>>,
      annual_projection |-> <<0, 1>>,
      categories |-> <<>>,
      trials_ending_soon |-> <<>>,
      unused_subscriptions |-> <<>> ]

\* C7: an empty message list gives the empty record list, and the summary
\* of an empty record list has zero counts and costs and empty categories,
\* trials_ending_soon and unused_subscriptions.
C7_EmptyInput ==
    /\ (Built /\ args = <<>>) => ret = <<>>
    /\ (op = "scan_gmail" /\ args = <<>>) => summary = EmptyReport
    /\ (op = "generate_summary" /\ args = <<>>) => ret = EmptyReport

\* a scan of an empty inbox
C7_Witness ==
    /\ op = "scan_gmail"
    /\ inbox = <<>>
    /\ subscriptions = <<>>
    /\ summary.total_subscriptions = 0

\* the sender up to and including its last @
LocalPart(from) == SubSeq(from, 1, Len(from) - Len(Last(str_split(from, "@"))))

\* two senders with an @ that differ at most in the letter case of what
\* follows it
SameUpToDomainCase(f, g) ==
    /\ Contains(f, "@")
    /\ LocalPart(f) = LocalPart(g)
    /\ str_lower(f) = str_lower(g)

\* C8: two messages whose senders differ only in the letter case of the
\* domain get the same service identity, for the webmail domains too.
C8_DomainCaseInsensitive ==
    Built =>
        \A i, j \in 1..Len(args) :
            (/\ SameUpToDomainCase(args[i].from, args[j].from)
             /\ args[i].subject = args[j].subject)
                => GroupKey(args[i]) = GroupKey(args[j])

\* C9, as claimed: is_subscription_active is true if and only if the time
\* from last_message_date to now is at most 60 days.
C9_ActiveIffAtMostSixtyDays ==
    op = "is_subscription_active" =>
        (ret <=> now - args <= threshold_days * SecondsPerDay)

\* C9, amended: is_subscription_active is true if and only if fewer than 61
\* days have passed from last_message_date to now, that is, the whole days
\* passed are at most 60; so 10 days and exactly 60 days are active and 90
\* days is not.
C9_ActiveIffUnderSixtyOneDays ==
    op = "is_subscription_active" =>
        /\ ret <=> now - args < (threshold_days + 1) * SecondsPerDay
        /\ now - args = 10 * SecondsPerDay => ret
        /\ now - args = 60 * SecondsPerDay => ret
        /\ now - args = 90 * SecondsPerDay => ~ret

\* a date 60 days and one second back is found active
C9_Witness ==
    /\ op = "is_subscription_active"
    /\ now - args = 60 * SecondsPerDay + 1
    /\ ret

\* the records of subs that are active at clock t
ActiveAt(subs, t) ==
    {k \in 1..Len(subs) : is_subscription_active(t, subs[k].last_email_date)}

\* C10: a summary produced at clock t counts as active exactly the records
\* whose last_email_date is within 60 days of t, also when time has passed
\* since the records were built.
C10_ActiveAtReadTime ==
    /\ op = "generate_summary"
           => ret.active_subscriptions = Cardinality(ActiveAt(args, opAt))
    /\ (op = "get_summary" /\ ret # <<>>)
           => ret.active_subscriptions = Cardinality(ActiveAt(subscriptions, opAt))

\* fractions: a = b, whatever their terms
FracEq(a, b) == Frac(a[1], a[2]) = Frac(b[1], b[2])

\* what a record adds to the total: its monthly_cost when it is active and
\* has one, and nothing otherwise
CostOrZero(sub) ==
    IF sub.is_active /\ sub.monthly_cost # None
    THEN sub.monthly_cost[1] ELSE <<0, 1>>

\* the sum of CostOrZero over the first n records of subs
RECURSIVE ActiveTotal(_, _)
ActiveTotal(subs, n) ==
    IF n = 0 THEN <<0, 1>>
    ELSE LET r == ActiveTotal(subs, n - 1)
             c == CostOrZero(subs[n])
         IN  <<r[1] * c[2] + c[1] * r[2], r[2] * c[2]>>

\* C11: total_monthly_cost is the sum of monthly_cost over the active
\* records, a null monthly_cost counting as zero and inactive records as
\* nothing, and annual_projection is total_monthly_cost times 12.
C11_TotalOverActive ==
    op = "generate_summary_report" =>
        /\ FracEq(ret.total_monthly_cost, ActiveTotal(args, Len(args)))
        /\ FracEq(ret.annual_projection,
                  <<12 * ret.total_monthly_cost[1], ret.total_monthly_cost[2]>>)

\* an inactive record with a cost next to an active one with another cost
C11_Witness ==
    /\ op = "generate_summary_report"
    /\ Len(args) = 2
    /\ ~args[1].is_active /\ args[1].monthly_cost = Some(<<10, 1>>)
    /\ args[2].is_active /\ args[2].monthly_cost = Some(<<999, 100>>)
    /\ ret.total_monthly_cost = <<999, 100>>
    /\ ret.annual_projection = <<2997, 25>>

\* a free trial with an end date after the clock
FutureTrial(sub) ==
    /\ sub.is_free_trial
    /\ sub.trial_end_date # None
    /\ sub.trial_end_date[1] > now

\* C12, as claimed: trials_ending_soon holds exactly the records, active or
\* not, that are free trials with an end date after now and at most 14 days
\* after now.
C12_TrialsWithinFourteenDays ==
    op = "summarise_trials" =>
        ret.trials_ending_soon
            = SelectSeq(args, LAMBDA sub :
                  /\ FutureTrial(sub)
                  /\ sub.trial_end_date[1] - now <= trial_window_days * SecondsPerDay)

\* C12, amended: trials_ending_soon holds exactly the records, active or not,
\* that are free trials with an end date after now and less than 15 days
\* after now, that is, at most 14 whole days; a trial that ends 5 days ahead
\* is listed, and one that ends 20 days ahead, in the past, or at no known
\* date is not.
C12_TrialsUnderFifteenDays ==
    op = "summarise_trials" =>
        /\ ret.trials_ending_soon
               = SelectSeq(args, LAMBDA sub :
                     /\ FutureTrial(sub)
                     /\ sub.trial_end_date[1] - now
                            < (trial_window_days + 1) * SecondsPerDay)
        /\ \A k \in 1..Len(ret.trials_ending_soon) :
               LET sub == ret.trials_ending_soon[k]
               IN  /\ sub.trial_end_date # None
                   /\ sub.trial_end_date[1] # now + 20 * SecondsPerDay
                   /\ sub.trial_end_date[1] # now - SecondsPerDay

\* an inactive trial that ends 5 days ahead is listed, and one that ends 14
\* days and a second ahead is listed too
C12_Witness ==
    /\ op = "summarise_trials"
    /\ Len(args) = 2
    /\ ~args[1].is_active
    /\ args[1].trial_end_date = Some(now + 5 * SecondsPerDay)
    /\ args[2].trial_end_date = Some(now + 14 * SecondsPerDay + 1)
    /\ ret.trials_ending_soon = args

\* the records of list, as a set
Listed(list) == {list[k] : k \in 1..Len(list)}

\* C13: unused_subscriptions lists the active records whose last_email_date
\* is more than 60 days back, and for records built and summarised in one
\* go, as scan_gmail does, a subscription whose newest message is more than
\* 60 days old is in unused_subscriptions.
C13_OldSubscriptionsReportedUnused ==
    /\ op = "generate_summary" =>
           \A k \in 1..Len(args) :
               (/\ args[k].is_active
                /\ opAt - args[k].last_email_date > unused_threshold * SecondsPerDay)
                   => args[k] \in Listed(ret.unused_subscriptions)
    /\ op = "scan_gmail" =>
           \A k \in 1..Len(subscriptions) :
               opAt - subscriptions[k].last_email_date
                       > unused_threshold * SecondsPerDay
                   => subscriptions[k] \in Listed(summary.unused_subscriptions)

\* the frequency of args holds the word w in some letter case
FrequencyHas(w) == args[2] # None /\ Contains(str_lower(args[2][1]), w)

\* the fraction a times n / d
Scaled(a, n, d) == <<a[1] * n, a[2] * d>>

\* C14: calculate_monthly_cost looks for words in the frequency in any
\* letter case, in this order: "annual" or "yearly" gives amount / 12, else
\* "quarterly" gives amount / 3, else "weekly" gives amount * 4.33, else
\* "daily" gives amount * 30.42, and anything else, an empty and a null
\* frequency included, gives the amount; (120, "Annual") gives 10 and
\* (9.99, "Monthly") gives 9.99.
C14_MonthlyCostByFrequency ==
    op = "calculate_monthly_cost" =>
        /\ FracEq(ret,
                  IF FrequencyHas("annual") \/ FrequencyHas("yearly")
                  THEN Scaled(args[1], 1, 12)
                  ELSE IF FrequencyHas("quarterly") THEN Scaled(args[1], 1, 3)
                  ELSE IF FrequencyHas("weekly") THEN Scaled(args[1], 433, 100)
                  ELSE IF FrequencyHas("daily") THEN Scaled(args[1], 3042, 100)
                  ELSE args[1])
        /\ args = <<<<120, 1>>, Some("Annual")>> => ret = <<10, 1>>
        /\ args = <<<<999, 100>>, Some("Monthly")>> => ret = <<999, 100>>
        /\ args[2] \in {None, Some(""), Some("Unknown")} => ret = args[1]

\* a weekly price billed annually is divided by 12
C14_Witness ==
    /\ op = "calculate_monthly_cost"
    /\ args = <<<<120, 1>>, Some("weekly, billed annually")>>
    /\ ret = <<10, 1>>

\* some pattern of the group occurs in the lowercased text
GroupHits(patterns, lowered) ==
    \E k \in 1..Len(patterns) : Contains(lowered, patterns[k])

\* C15: extract_billing_frequency tries the groups in the order Monthly,
\* Annual, Quarterly, Weekly and returns the first that matches, or none
\* when none matches; so a text that holds both "annual" and "monthly"
\* gives "Monthly" wherever the two words stand.
C15_FrequencyGroupOrder ==
    op = "extract_billing_frequency" =>
        \E lowered \in {str_lower(args)} :
            /\ ret = IF GroupHits(monthly_patterns, lowered) THEN Some("Monthly")
                     ELSE IF GroupHits(annual_patterns, lowered) THEN Some("Annual")
                     ELSE IF GroupHits(quarterly_patterns, lowered)
                     THEN Some("Quarterly")
                     ELSE IF GroupHits(weekly_patterns, lowered) THEN Some("Weekly")
                     ELSE None
            /\ (Contains(lowered, "annual") /\ Contains(lowered, "monthly"))
                   => ret = Some("Monthly")

\* "annual" stands before "monthly" and the result is Monthly
C15_Witness ==
    /\ op = "extract_billing_frequency"
    /\ args = "ANNUAL plan. Billed monthly"
    /\ ret = Some("Monthly")

\* the categories, in their fixed order
CategoryOrder ==
    <<"Streaming", "Productivity", "Gaming", "Fitness", "News", "Shopping",
      "Security", "Cloud">>

\* a keyword of the k-th category occurs in the lowercased text
CategoryHits(k, lowered) ==
    \E j \in 1..Len(service_categories[k][2]) :
        Contains(lowered, service_categories[k][2][j])

\* the k-th category is the first one in order that hits the text
FirstHit(k, lowered) ==
    /\ CategoryHits(k, lowered)
    /\ \A j \in 1..(k - 1) : ~CategoryHits(j, lowered)

\* C16: categorize_subscription returns one of the eight categories or
\* "Other": the first category in order with a keyword in the lowercased
\* service name; the first with a keyword in the lowercased body only when
\* the name hits none; and "Other" exactly when name and body hit none.
C16_CategoryByNameThenBody ==
    op = "categorize_subscription" =>
        \E name \in {str_lower(args[1])}, body \in {str_lower(args[2])} :
            LET nameHits == \E k \in 1..Len(CategoryOrder) : CategoryHits(k, name)
                bodyHits == \E k \in 1..Len(CategoryOrder) : CategoryHits(k, body)
            IN  /\ ret \in {CategoryOrder[k] : k \in 1..Len(CategoryOrder)}
                               \cup {"Other"}
                /\ \A k \in 1..Len(CategoryOrder) :
                       FirstHit(k, name) => ret = CategoryOrder[k]
                /\ ~nameHits =>
                       \A k \in 1..Len(CategoryOrder) :
                           FirstHit(k, body) => ret = CategoryOrder[k]
                /\ ret = "Other" <=> (~nameHits /\ ~bodyHits)

\* a name that hits Shopping and Cloud, with a body that hits Streaming
C16_Witness ==
    /\ op = "categorize_subscription"
    /\ args = <<"AMAZON Web Services", "Watch NETFLIX tonight">>
    /\ ret = "Shopping"

\* the currency of a match by the claimed precedence, in any letter case
CurrencyOf(lowered) ==
    IF Contains(lowered, "$") \/ Contains(lowered, "usd")
           \/ Contains(lowered, "dollars")
    THEN "USD"
    ELSE IF Contains(lowered, "£") \/ Contains(lowered, "gbp")
                \/ Contains(lowered, "pounds")
    THEN "GBP"
    ELSE IF Contains(lowered, "€") \/ Contains(lowered, "eur")
                \/ Contains(lowered, "euros")
    THEN "EUR"
    ELSE "USD"

\* C17: extract_currency_amounts finds amounts in any letter case and gives
\* each match a currency by the precedence USD ($, USD, dollars), GBP (£,
\* GBP, pounds), EUR (€, EUR, euros), else USD, for every letter case of the
\* code or word; a text that holds one price gives one pair with the
\* currency of its symbol, code or word.
C17_CurrencyInAnyCase ==
    (op = "extract_currency_amounts" /\ args \notin {"", "no price here"}) =>
        /\ Len(ret) = 1
        /\ ret[1][2] = CurrencyOf(str_lower(args))

\* what the k-th date pattern's match in text gives under the f-th format:
\* None when the pattern does not match or the match does not parse
ParseOf(text, k, f) ==
    LET m == SearchGroup(date_patterns[k], text, 1)
    IN  IF m = None THEN None ELSE strptime(m[1], DateFormats[f])

\* pattern k comes before pattern j, or is pattern j with an earlier format
Earlier(k, f, j, g) == k < j \/ (k = j /\ f < g)

\* C18: detect_free_trial returns (false, none) exactly when no trial phrase
\* occurs in the text in any letter case; with a phrase, it returns (true,
\* date) for the first date pattern, and the first of the six formats for
\* it, whose match parses, and (true, none) when no pattern matches or no
\* match parses; so there is never an end date without is_trial.
C18_TrialOutcomes ==
    op = "detect_free_trial" =>
        LET K == 1..Len(date_patterns)
            F == 1..Len(DateFormats)
            phrase == \E lowered \in {str_lower(args)} :
                          \E k \in 1..Len(trial_patterns) :
                              Contains(lowered, trial_patterns[k])
        IN  /\ ret[1] = phrase
            /\ ~ret[1] => ret[2] = None
            /\ phrase =>
                   /\ \A k \in K, f \in F :
                          (/\ ParseOf(args, k, f) # None
                           /\ \A j \in K, g \in F :
                                  Earlier(j, g, k, f) => ParseOf(args, j, g) = None)
                              => ret[2] = ParseOf(args, k, f)
                   /\ (\A k \in K, f \in F : ParseOf(args, k, f) = None)
                          => ret[2] = None

\* the first pattern's match parses under no format and the fourth
\* pattern's match gives the date
C18_Witness ==
    /\ op = "detect_free_trial"
    /\ args = "Free trial ends on Foo 10, 2026. Expires on March 1, 2026"
    /\ ret = <<TRUE, Some(DaysFromCivil(2026, 3, 1) * SecondsPerDay)>>

\* C19: the service name is never blank: for every message, also one with
\* an empty sender, a sender that is only "@", an empty domain label or a
\* leading space, extract_service_name and the key that
\* analyze_subscription_emails groups the message under are not empty, and
\* are "Unknown Service" when sender and subject give nothing.
C19_ServiceNameNeverBlank ==
    op = "extract_service_name" =>
        /\ \A k \in 1..3 : ret[k] # ""
        /\ (args.from = "" /\ args.subject = "") => ret[1] = "Unknown Service"

RECURSIVE CountOver(_, _)
CountOver(categories, keys) ==
    IF keys = {} THEN 0
    ELSE LET c == CHOOSE c \in keys : TRUE
         IN  categories[c].count + CountOver(categories, keys \ {c})

\* the sum of the monthly_cost fields of the categories in keys, as sum()
\* adds them
RECURSIVE CostOver(_, _)
CostOver(categories, keys) ==
    IF keys = {} THEN FloatZero
    ELSE LET c == CHOOSE c \in keys : TRUE
         IN  float_add(CostOver(categories, keys \ {c}),
                       categories[c].monthly_cost)

\* C21: the categories of a summary agree with its totals: their keys are
\* the categories of the active records, their counts add up to
\* active_subscriptions, their monthly costs add up to total_monthly_cost,
\* and every category present counts at least one record.
C21_CategoriesAgreeWithTotals ==
    op = "summarise_costs" =>
        LET categories == ret.categories
            keys == DOMAIN categories
        IN  /\ keys = {args[k].category :
                          k \in {j \in 1..Len(args) : args[j].is_active}}
            /\ CountOver(categories, keys) = ret.active_subscriptions
            /\ CostOver(categories, keys) = ret.total_monthly_cost
            /\ \A c \in keys : categories[c].count >= 1

\* the sum of the email_count fields of the records of subs
RECURSIVE EmailCountOver(_)
EmailCountOver(subs) ==
    IF subs = <<>> THEN 0
    ELSE subs[1].email_count + EmailCountOver(Tail(subs))

\* C22: grouping conserves messages: every message of the input list is
\* counted in exactly one returned record, the record of its service, so the
\* email_count fields add up to the number of input messages, and every
\* record counts at least one message.
C22_GroupingConservesMessages ==
    op \in {"analyze_subscription_emails", "scan_gmail"} =>
        /\ EmailCountOver(ret) = Len(args)
        /\ \A k \in 1..Len(args) :
               Cardinality({j \in 1..Len(ret) :
                   ret[j].service_name = GroupKey(args[k])}) = 1
        /\ \A j \in 1..Len(ret) :
               /\ ret[j].email_count >= 1
               /\ ret[j].email_count =
                      Cardinality({k \in 1..Len(args) :
                          GroupKey(args[k]) = ret[j].service_name})

\* two messages of one service have been grouped into one record that
\* counts both
C22_Witness ==
    /\ op = "analyze_subscription_emails"
    /\ Len(args) = 2
    /\ GroupKey(args[1]) = GroupKey(args[2])
    /\ Len(ret) = 1
    /\ ret[1].email_count = 2

\* C23: export_to_csv only reads the stored records: the records stored
\* after an export are the records stored before it, last_email_date and
\* trial_end_date of every stored record are datetimes, generate_summary over
\* stored records returns, without raising, the report that the scan made of
\* them, and an export with no stored records returns False and writes no
\* file.
C23_ExportOnlyReads ==
    /\ op = "export_to_csv" =>
           /\ subscriptions = args
           /\ args = <<>> => ret = [ok |-> FALSE, rows |-> None]
    /\ \A k \in 1..Len(subscriptions) :
           /\ isinstance_datetime(subscriptions[k].last_email_date)
           /\ subscriptions[k].trial_end_date # None =>
                  isinstance_datetime(subscriptions[k].trial_end_date[1])
    /\ (op = "generate_summary" /\ args # <<>>) =>
           /\ ret # TypeError
           /\ ret = summary

=============================================================================
